---- MODULE Spec2Model ----
(***************************************************************************)
(* Model of the aiot-manager gateway: the SQLite -> AWS IoT Core publisher *)
(* (sqlite_to_iotcore.py) and the MQTT -> SQLite ingest that feeds the     *)
(* same store (mqtt_to_sqlite.py).                                         *)
(*                                                                         *)
(* Instants are integer epoch seconds.  Civil timestamps are 6-tuples      *)
(* <<year, month, day, hour, minute, second>>, ordered as the fixed-width  *)
(* "YYYY-MM-DD HH:MM:SS" strings the store holds are ordered.              *)
(***************************************************************************)
EXTENDS Integers, Sequences, FiniteSets

(* ------------------------------ bounds --------------------------------- *)
\* the wall clock runs from 0 up to MaxClock seconds
MaxClock == 900
\* at most MaxRows rows are ever inserted into metrics
MaxRows == 2

(* ------------------------- program constants --------------------------- *)
\* one window, in seconds (next_end = last_utc_end + 300)
WINDOW == 300
\* Asia/Seoul and timezone(timedelta(hours=9)): +09:00 for every instant modelled
KstOffset == 9 * 3600

Devs == {"d1", "d2"}
\* columns of the metrics table the ingest creates
IngestCols == {"id", "dev", "ts", "t", "h", "lx", "g", "pm1_0", "pm2_5", "pm10"}
\* columns the grouped query of fetch_utc_window_aggregate references
QueryCols == {"dev", "ts", "t", "h", "lx", "g", "pm"}

(* ------------------------- calendar arithmetic ------------------------- *)
IsLeap(y) == (y % 4 = 0 /\ y % 100 # 0) \/ y % 400 = 0

DaysInMonth(y, m) ==
    IF m = 2 THEN (IF IsLeap(y) THEN 29 ELSE 28)
    ELSE IF m \in {4, 6, 9, 11} THEN 30 ELSE 31

\* days since 1970-01-01 of a proleptic Gregorian date
DaysFromCivil(y, m, d) ==
    LET yy  == IF m <= 2 THEN y - 1 ELSE y
        era == yy \div 400
        yoe == yy - era * 400
        mp  == IF m > 2 THEN m - 3 ELSE m + 9
        doy == (153 * mp + 2) \div 5 + d - 1
        doe == yoe * 365 + yoe \div 4 - yoe \div 100 + doy
    IN  era * 146097 + doe - 719468

\* <<year, month, day>> of a day number
CivilFromDays(z) ==
    LET zz  == z + 719468
        era == zz \div 146097
        doe == zz - era * 146097
        yoe == (doe - doe \div 1460 + doe \div 36524 - doe \div 146096) \div 365
        doy == doe - (365 * yoe + yoe \div 4 - yoe \div 100)
        mp  == (5 * doy + 2) \div 153
        d   == doy - (153 * mp + 2) \div 5 + 1
        m   == IF mp < 10 THEN mp + 3 ELSE mp - 9
        y   == yoe + era * 400 + (IF m <= 2 THEN 1 ELSE 0)
    IN  <<y, m, d>>

\* datetime.fromtimestamp(e, tz): the civil fields of instant e at UTC offset off
CivilAt(e, off) ==
    LET loc == e + off
        day == loc \div 86400
        sod == loc - day * 86400
        ymd == CivilFromDays(day)
    IN  <<ymd[1], ymd[2], ymd[3], sod \div 3600, (sod % 3600) \div 60, sod % 60>>

\* aware datetime(...).timestamp(): the instant of civil fields c at UTC offset off
InstantOf(c, off) ==
    DaysFromCivil(c[1], c[2], c[3]) * 86400 + c[4] * 3600 + c[5] * 60 + c[6] - off

\* datetime(y, mo, d, h, mi) raises ValueError outside these ranges
ValidDateTime(y, mo, d, h, mi) ==
    /\ y \in 1..9999
    /\ mo \in 1..12
    /\ d >= 1 /\ d <= DaysInMonth(y, mo)
    /\ h \in 0..23
    /\ mi \in 0..59

\* order of two "YYYY-MM-DD HH:MM:SS" strings (field by field, left to right)
RECURSIVE TsLessFrom(_, _, _)
TsLessFrom(a, b, i) ==
    IF i > 6 THEN FALSE
    ELSE IF a[i] < b[i] THEN TRUE
    ELSE IF a[i] > b[i] THEN FALSE
    ELSE TsLessFrom(a, b, i + 1)

TsLess(a, b) == TsLessFrom(a, b, 1)

epoch_to_utc_text(e) == CivilAt(e, 0)
epoch_to_kst_text(e) == CivilAt(e, KstOffset)

floor_to_five_minutes_utc(epoch_sec) ==
    LET dt == CivilAt(epoch_sec, 0)
        m5 == (dt[5] \div 5) * 5
    IN  InstantOf(<<dt[1], dt[2], dt[3], dt[4], m5, 0>>, 0)


(* ------------------------------- state --------------------------------- *)
VARIABLES
    clock,            \* time.time() of the gateway, in seconds
    S3_PARTITION_TZ,  \* configuration: "UTC" or anything else (read as KST)
    metricsCols,      \* columns of the metrics table of the store
    metrics,          \* rows of the metrics table: [dev, ts, k], k telling apart
                      \*   the rows that agree on dev and ts
    ckptRows,         \* committed rows of iot_checkpoint, in ROWID order
    txRows,           \* iot_checkpoint as conn_ckpt sees it (its open transaction)
    pc,               \* position of the publisher process
    run_forever,      \* argument of run_incremental
    last_utc_end,     \* the loop's anchor
    now,              \* local of one loop iteration (0 between iterations)
    target_end,       \* local of one loop iteration (0 between iterations)
    next_end,         \* local of one loop iteration (0 between iterations)
    start_utc,        \* local of one loop iteration (0 between iterations)
    rows,             \* result of the read of the current window
    todo,             \* rows the publish loop has not reached yet
    handed,           \* history: <<window start, dev>> handed to client.publish
    attempt,          \* history: devices handed off in the current attempt
    seen,             \* history: <<window start, dev>> returned by some read
    runWindows,       \* history: starts of the windows taken up in this run
    boot,             \* history: what the start-up of this run found and decided
    origin,           \* history: resume anchor of the last start-up that found
                      \*          no stored checkpoint (else of the first start-up)
    failed,           \* history: the window whose read or publish failed last
    pw,               \* history: the last call of publish_window
    ended,            \* history: how the last run ended: "no" (it has not),
                      \*          "failure" (an exception), "cancel" (from outside)
    inWindow,              \* history: the stored rows whose instant lay in the
                      \*          current window when it was read
    sentCounts,             \* history: per device, the counts of the records handed
                      \*          off in the current attempt, in order
    counted,          \* history: <<row, window start>>: the row was counted in
                      \*          an aggregate of that window handed to the transport
    arg,              \* input of the function under study (function studies only)
    res               \* its result (function studies only)

storeVars == <<clock, S3_PARTITION_TZ, metricsCols, metrics, ckptRows, txRows>>
procVars  == <<pc, run_forever, last_utc_end, now, target_end, next_end, start_utc,
               rows, todo>>
histVars  == <<handed, attempt, seen, runWindows, boot, origin, failed, pw,
               ended, inWindow, sentCounts, counted>>
fnVars    == <<arg, res>>
vars      == <<storeVars, procVars, histVars, fnVars>>

\* "no window" marker of the history variables
NoWin == 0 - 1

RunningPcs == {"loop", "read", "publish", "ckpt_delete", "ckpt_insert", "ckpt_commit"}
WindowPcs  == {"read", "publish", "ckpt_delete", "ckpt_insert", "ckpt_commit"}
CkptPcs    == {"ckpt_delete", "ckpt_insert", "ckpt_commit"}

(* -------------------------- standard deviation ------------------------- *)
\* Numbers are carried in fixed point: an average in tenths, a sum of squares
\* in hundredths, a standard deviation in ten-thousandths (the four decimals
\* round() keeps).

\* Python's None, SQL's NULL
None == 0 - 888888

\* an exception leaving calc_std
Raises == 0 - 777777

\* the largest r in lo..hi-1 with r * r <= x, for lo * lo <= x < hi * hi
RECURSIVE IsqrtIn(_, _, _)
IsqrtIn(x, lo, hi) ==
    IF hi - lo <= 1 THEN lo
    ELSE LET mid == (lo + hi) \div 2
         IN  IF mid * mid <= x THEN IsqrtIn(x, mid, hi) ELSE IsqrtIn(x, lo, mid)

\* round(var ** 0.5, 4) for var = num / (100 * q), num in hundredths:
\* the integer nearest to the square root of 10^8 * var = num * 10^6 / q;
\* q = 0 raises ZeroDivisionError, and a negative var has a complex root
\* that round() rejects with TypeError
RoundedRoot(num, q) ==
    IF q = 0 THEN Raises
    ELSE IF num < 0 THEN Raises
    ELSE LET whole == (num * 1000000) \div q
             rest  == (num * 1000000) % q
             r     == IsqrtIn(whole, 0, 46341)
             up    == whole > r * r + r \/ (whole = r * r + r /\ 4 * rest >= q)
         IN  IF up THEN r + 1 ELSE r

\* calc_std without "if var < 0: var = 0"
calc_std_unclamped(avg, sumsq, n) ==
    IF avg = None \/ sumsq = None \/ n = None \/ n < 2 THEN None
    ELSE RoundedRoot(sumsq - n * avg * avg, n - 1)

calc_std(avg, sumsq, n) ==
    IF avg = None \/ sumsq = None \/ n = None \/ n < 2 THEN None
    ELSE LET num == sumsq - n * avg * avg
         IN  RoundedRoot(IF num < 0 THEN 0 ELSE num, n - 1)

(* --------------------------- checkpoint store -------------------------- *)
\* SELECT last_end_utc ... ORDER BY ROWID DESC LIMIT 1; no row reads as 0
get_local_checkpoint(tbl) ==
    IF Len(tbl) > 0 THEN tbl[Len(tbl)] ELSE 0

\* update_delete with the DELETE left out
update_delete_keep(tbl) == tbl

\* DELETE FROM iot_checkpoint
update_delete(tbl) == << >>

\* INSERT INTO iot_checkpoint (last_end_utc) VALUES (?)
update_insert(tbl, value) == Append(tbl, value)

\* update_local_checkpoint run through to its commit
update_local_checkpoint(tbl, value) == update_insert(update_delete(tbl), value)

(* ------------------------- partition discovery ------------------------- *)
\* the UTC offset of base_tz
PartitionOffset == IF S3_PARTITION_TZ = "UTC" THEN 0 ELSE KstOffset

\* s3_part_to_end_utc without the timedelta(minutes=5)
s3_part_to_start_utc(y, mo, d, h, m5) ==
    InstantOf(<<y, mo, d, h, m5, 0>>, PartitionOffset)

s3_part_to_end_utc(y, mo, d, h, m5) ==
    InstantOf(<<y, mo, d, h, m5, 0>>, PartitionOffset) + 5 * 60

\* a listed key: ext = its extension is one of .json .parquet .gz .gzip;
\* parts = the integers after "=" of its path segments, in order
S3Key(ext, parts) == [ext |-> ext, parts |-> parts]

\* stands in parts for a segment whose text int() does not accept
NotInt == 0 - 999999

K_0000 == S3Key(TRUE,  <<1970, 1, 1, 0, 0>>)
K_0002 == S3Key(TRUE,  <<1970, 1, 1, 0, 2>>)
K_0005 == S3Key(TRUE,  <<1970, 1, 1, 0, 5>>)
K_0900 == S3Key(TRUE,  <<1970, 1, 1, 9, 0>>)
K_0060 == S3Key(TRUE,  <<1970, 1, 1, 0, 60>>)
K_text == S3Key(FALSE, <<1970, 1, 1, 0, 10>>)
K_part == S3Key(TRUE,  <<1970, 1, 1>>)

\* what list_objects_v2 may return at a start-up, in the order of the pages
S3Listings ==
    { << >>, <<K_0000>>, <<K_0002>>, <<K_0900>>, <<K_0005, K_0000>>,
      <<K_0060, K_text, K_part>>, <<K_0060, K_0000, K_text>> }

\* the keys that reach latest = max(latest, end_utc)
KeyCounts(k) ==
    /\ k.ext
    /\ Len(k.parts) >= 5
    /\ \A i \in 1..5 : k.parts[i] # NotInt
    /\ ValidDateTime(k.parts[1], k.parts[2], k.parts[3], k.parts[4], k.parts[5])

\* the two for loops over the pages and their keys, from key i on
RECURSIVE ScanKeys(_, _, _)
ScanKeys(keys, i, latest) ==
    IF i > Len(keys) THEN latest
    ELSE LET k == keys[i]
         IN  IF ~k.ext THEN ScanKeys(keys, i + 1, latest)
             ELSE IF Len(k.parts) < 5 THEN ScanKeys(keys, i + 1, latest)
             ELSE IF ~KeyCounts(k) THEN ScanKeys(keys, i + 1, latest)
             ELSE LET end_utc == s3_part_to_end_utc(k.parts[1], k.parts[2],
                                     k.parts[3], k.parts[4], k.parts[5])
                  IN  ScanKeys(keys, i + 1, IF end_utc > latest THEN end_utc ELSE latest)

get_latest_s3_window_utc(listing, listFails) ==
    IF listFails THEN 0
    ELSE LET latest == ScanKeys(listing, 1, 0)
         IN  IF latest # 0 THEN latest ELSE 0

(* --------------------------- aggregate reader -------------------------- *)
\* the read returning a group for every known device, empty groups included
fetch_zero_filled(tbl, s, e) ==
    LET start_kst == CivilAt(s, KstOffset)
        end_kst   == CivilAt(e, KstOffset)
        hit       == { r \in tbl : ~TsLess(r.ts, start_kst) /\ TsLess(r.ts, end_kst) }
    IN  { [dev |-> d, n |-> Cardinality({ r \in hit : r.dev = d })] : d \in Devs }

\* the read with "ts <= end" in place of "ts < end"
fetch_closed_window(tbl, s, e) ==
    LET start_kst == CivilAt(s, KstOffset)
        end_kst   == CivilAt(e, KstOffset)
        hit       == { r \in tbl : ~TsLess(r.ts, start_kst) /\ ~TsLess(end_kst, r.ts) }
    IN  { [dev |-> d, n |-> Cardinality({ r \in hit : r.dev = d })] :
          d \in { r.dev : r \in hit } }

fetch_utc_window_aggregate(tbl, s, e) ==
    LET start_kst == CivilAt(s, KstOffset)
        end_kst   == CivilAt(e, KstOffset)
        hit       == { r \in tbl : ~TsLess(r.ts, start_kst) /\ TsLess(r.ts, end_kst) }
    IN  { [dev |-> d, n |-> Cardinality({ r \in hit : r.dev = d })] :
          d \in { r.dev : r \in hit } }

(* ----------------------------- publish loop ---------------------------- *)
\* the year, month, day, hour and min5 fields of the records of the window
\* that starts at s: strftime and the :02d format of the KST civil time,
\* as int() reads them back
PartitionFields(s) ==
    LET kst_dt == CivilAt(s, KstOffset)
    IN  <<kst_dt[1], kst_dt[2], kst_dt[3], kst_dt[4], (kst_dt[5] \div 5) * 5>>

\* ResumeAnchor asking S3 whether or not a checkpoint is stored
ResumeAnchor_s3_first(local_ckpt, fallback) ==
    IF fallback # 0 THEN fallback ELSE local_ckpt

\* if local_ckpt: last_utc_end = local_ckpt, else the S3 fallback
ResumeAnchor(local_ckpt, fallback) ==
    IF local_ckpt # 0 THEN local_ckpt ELSE fallback

\* IsIdle letting the window that is still running through
IsIdle_late(ne, te) == ne > te + WINDOW

\* if next_end > target_end: idle
IsIdle(ne, te) == ne > te

\* PublishDone leaving the loop one row early
PublishDone_early(left) == Cardinality(left) <= 1

\* the for loop over rows has run out
PublishDone(left) == left = {}

\* NextAnchor jumping to the newest complete window
NextAnchor_jump(ne, te) == te

\* last_utc_end = next_end
NextAnchor(ne, te) == ne

\* sentCounts before any record of the attempt went out
NoneSent == [d \in Devs |-> << >>]

\* the instant a stored "YYYY-MM-DD HH:MM:SS" (KST) timestamp denotes
RowInstant(r) == InstantOf(r.ts, KstOffset)

\* the stored rows whose instant lies in [s, e)
RowsIn(tbl, s, e) == { r \in tbl : s <= RowInstant(r) /\ RowInstant(r) < e }

\* arg and res outside the function studies
Unused == << >>

\* boot while no run is under way
NotUp == [src |-> "down", anchor |-> 0]

\* the store and the process before anything ran
InitProgram ==
    /\ clock = 0
    /\ S3_PARTITION_TZ \in {"UTC", "KST"}
    /\ metricsCols \in {IngestCols, IngestCols \cup {"pm"}}
    /\ metrics = {}
    /\ ckptRows = << >>
    /\ txRows = << >>
    /\ pc = "down"
    /\ run_forever = TRUE
    /\ last_utc_end = 0
    /\ now = 0
    /\ target_end = 0
    /\ next_end = 0
    /\ start_utc = 0
    /\ rows = {}
    /\ todo = {}
    /\ handed = {}
    /\ attempt = {}
    /\ seen = {}
    /\ runWindows = << >>
    /\ boot = NotUp
    /\ origin = NoWin
    /\ failed = NoWin
    /\ pw = [start |-> NoWin, n |-> 0, before |-> 0, after |-> 0]
    /\ ended = "no"
    /\ inWindow = {}
    /\ sentCounts = NoneSent
    /\ counted = {}

Init ==
    /\ InitProgram
    /\ arg = Unused
    /\ res = Unused

\* run_incremental up to the main loop: read the checkpoint, else ask S3
Boot(mode, listing, listFails) ==
    /\ pc \in {"down", "stopped"}
    /\ LET local_ckpt == get_local_checkpoint(ckptRows)
           fb         == get_latest_s3_window_utc(listing, listFails)
           anchor     == ResumeAnchor(local_ckpt, fb)
       IN  /\ last_utc_end' = anchor
           /\ boot' = [src    |-> IF local_ckpt # 0 THEN "ckpt"
                                  ELSE IF fb # 0 THEN "s3" ELSE "none",
                       anchor |-> anchor]
           /\ origin' = IF origin = NoWin \/ local_ckpt = 0 THEN anchor ELSE origin
    /\ run_forever' = mode
    /\ txRows' = ckptRows
    /\ pc' = "loop"
    /\ runWindows' = << >>
    /\ ended' = "no"
    /\ UNCHANGED <<clock, S3_PARTITION_TZ, metricsCols, metrics, ckptRows>>
    /\ UNCHANGED <<now, target_end, next_end, start_utc, rows, todo>>
    /\ UNCHANGED <<handed, attempt, seen, failed, pw, inWindow, sentCounts, counted, fnVars>>

\* "break" taken without looking at the clock
LoopIdle_blind ==
    /\ pc = "loop"
    /\ pc' = IF run_forever THEN "loop" ELSE "stopped"
    /\ UNCHANGED <<storeVars, histVars, fnVars>>
    /\ UNCHANGED <<run_forever, last_utc_end, now, target_end, next_end, start_utc,
                   rows, todo>>

\* one pass of "while True" that finds nothing due: sleep, or break in once mode
LoopIdle ==
    /\ pc = "loop"
    /\ IsIdle(last_utc_end + WINDOW, floor_to_five_minutes_utc(clock))
    /\ pc' = IF run_forever THEN "loop" ELSE "stopped"
    /\ UNCHANGED <<storeVars, histVars, fnVars>>
    /\ UNCHANGED <<run_forever, last_utc_end, now, target_end, next_end, start_utc,
                   rows, todo>>

\* one pass of "while True" that finds the next window due
LoopDue ==
    /\ pc = "loop"
    /\ ~IsIdle(last_utc_end + WINDOW, floor_to_five_minutes_utc(clock))
    /\ now' = clock
    /\ target_end' = floor_to_five_minutes_utc(clock)
    /\ next_end' = last_utc_end + WINDOW
    /\ start_utc' = (last_utc_end + WINDOW) - WINDOW
    /\ pc' = "read"
    /\ runWindows' = Append(runWindows, start_utc')
    /\ UNCHANGED <<storeVars, run_forever, last_utc_end, rows, todo>>
    /\ UNCHANGED <<handed, attempt, seen, boot, origin, failed, pw>>
    /\ UNCHANGED <<ended, inWindow, sentCounts, counted, fnVars>>

\* rows = fetch_utc_window_aggregate(conn_read, start_utc, next_end)
ReadWindow ==
    /\ pc = "read"
    /\ QueryCols \subseteq metricsCols
    /\ rows' = fetch_utc_window_aggregate(metrics, start_utc, next_end)
    /\ todo' = rows'
    /\ attempt' = {}
    /\ seen' = seen \cup { <<start_utc, r.dev>> : r \in rows' }
    /\ pc' = IF rows' = {} THEN "ckpt_delete" ELSE "publish"
    /\ UNCHANGED <<storeVars, run_forever, last_utc_end, now, target_end, next_end,
                   start_utc>>
    /\ inWindow' = RowsIn(metrics, start_utc, next_end)
    /\ sentCounts' = NoneSent
    /\ UNCHANGED <<handed, runWindows, boot, origin, failed, pw>>
    /\ UNCHANGED <<ended, counted, fnVars>>

\* one turn of "for r in rows": client.publish(TOPIC, msg, QOS)
PublishOne ==
    /\ pc = "publish"
    /\ \E r \in todo :
        /\ handed' = handed \cup {<<start_utc, r.dev>>}
        /\ attempt' = attempt \cup {r.dev}
        /\ todo' = todo \ {r}
        /\ pc' = IF PublishDone(todo \ {r}) THEN "ckpt_delete" ELSE "publish"
        /\ sentCounts' = [sentCounts EXCEPT ![r.dev] = Append(@, r.n)]
        /\ counted' = counted \cup
               { <<m, start_utc>> : m \in { x \in inWindow : x.dev = r.dev } }
    /\ UNCHANGED <<storeVars, run_forever, last_utc_end, now, target_end, next_end,
                   start_utc, rows>>
    /\ UNCHANGED <<seen, runWindows, boot, origin, failed, pw>>
    /\ UNCHANGED <<ended, inWindow, fnVars>>

\* update_local_checkpoint: conn.execute("DELETE FROM iot_checkpoint")
CkptDelete ==
    /\ pc = "ckpt_delete"
    /\ txRows' = update_delete(txRows)
    /\ pc' = "ckpt_insert"
    /\ UNCHANGED <<clock, S3_PARTITION_TZ, metricsCols, metrics, ckptRows>>
    /\ UNCHANGED <<run_forever, last_utc_end, now, target_end, next_end, start_utc,
                   rows, todo, histVars, fnVars>>

\* update_local_checkpoint: conn.execute("INSERT INTO iot_checkpoint ...")
CkptInsert ==
    /\ pc = "ckpt_insert"
    /\ txRows' = update_insert(txRows, next_end)
    /\ pc' = "ckpt_commit"
    /\ UNCHANGED <<clock, S3_PARTITION_TZ, metricsCols, metrics, ckptRows>>
    /\ UNCHANGED <<run_forever, last_utc_end, now, target_end, next_end, start_utc,
                   rows, todo, histVars, fnVars>>

\* update_local_checkpoint: conn.commit(); then last_utc_end = next_end
CkptCommit ==
    /\ pc = "ckpt_commit"
    /\ ckptRows' = txRows
    /\ last_utc_end' = NextAnchor(next_end, target_end)
    /\ failed' = IF failed = start_utc THEN NoWin ELSE failed
    /\ pc' = "loop"
    /\ now' = 0
    /\ target_end' = 0
    /\ next_end' = 0
    /\ start_utc' = 0
    /\ rows' = {}
    /\ todo' = {}
    /\ attempt' = {}
    /\ inWindow' = {}
    /\ sentCounts' = NoneSent
    /\ UNCHANGED <<clock, S3_PARTITION_TZ, metricsCols, metrics, txRows>>
    /\ UNCHANGED <<run_forever, handed, seen, runWindows, boot, origin, pw>>
    /\ UNCHANGED <<ended, counted, fnVars>>

\* an exception (or a signal) leaves run_incremental: the with block rolls
\* conn_ckpt back, the finally block disconnects, the process ends
Terminate ==
    /\ pc' = "down"
    /\ txRows' = ckptRows
    /\ last_utc_end' = 0
    /\ now' = 0
    /\ target_end' = 0
    /\ next_end' = 0
    /\ start_utc' = 0
    /\ rows' = {}
    /\ todo' = {}
    /\ attempt' = {}
    /\ run_forever' = TRUE
    /\ runWindows' = << >>
    /\ boot' = NotUp
    /\ inWindow' = {}
    /\ sentCounts' = NoneSent
    /\ UNCHANGED <<clock, S3_PARTITION_TZ, metricsCols, metrics, ckptRows>>
    /\ UNCHANGED <<handed, seen, origin, pw, counted, fnVars>>

\* the grouped query raises (no such column, database is locked, ...)
ReadFail ==
    /\ pc = "read"
    /\ failed' = start_utc
    /\ ended' = "failure"
    /\ Terminate

\* PublishFail with the exception swallowed: on to the checkpoint write
PublishFail_swallow ==
    /\ pc = "publish"
    /\ pc' = "ckpt_delete"
    /\ UNCHANGED <<storeVars, histVars, fnVars>>
    /\ UNCHANGED <<run_forever, last_utc_end, now, target_end, next_end, start_utc,
                   rows, todo>>

\* client.publish raises (publishTimeoutException, ...)
PublishFail ==
    /\ pc = "publish"
    /\ failed' = start_utc
    /\ ended' = "failure"
    /\ Terminate

\* a statement of update_local_checkpoint raises
CkptFail ==
    /\ pc \in CkptPcs
    /\ failed' = failed
    /\ ended' = "failure"
    /\ Terminate

\* the process is stopped from outside (signal, power loss)
Cancel ==
    /\ pc \in RunningPcs
    /\ failed' = failed
    /\ ended' = "cancel"
    /\ Terminate

(* ------------------------------ environment ---------------------------- *)
\* the clock is observed every TickStep seconds
TickStep == 150

Tick ==
    /\ clock + TickStep <= MaxClock
    /\ clock' = clock + TickStep
    /\ UNCHANGED <<S3_PARTITION_TZ, metricsCols, metrics, ckptRows, txRows>>
    /\ UNCHANGED <<procVars, histVars, fnVars>>

\* instants the devices stamp their readings with
IngestInstants == {350}

\* on_message for a payload that parses and validates: one row into metrics
Ingest(dev, e) ==
    /\ Cardinality(metrics) < MaxRows
    /\ LET ts == CivilAt(e, KstOffset)
           k  == Cardinality({ r \in metrics : r.dev = dev /\ r.ts = ts }) + 1
       IN  metrics' = metrics \cup {[dev |-> dev, ts |-> ts, k |-> k]}
    /\ UNCHANGED <<clock, S3_PARTITION_TZ, metricsCols, ckptRows, txRows>>
    /\ UNCHANGED <<procVars, histVars, fnVars>>

Next ==
    \/ \E mode \in BOOLEAN, listing \in S3Listings, listFails \in BOOLEAN :
           Boot(mode, listing, listFails)
    \/ LoopIdle
    \/ LoopDue
    \/ ReadWindow
    \/ PublishOne
    \/ CkptDelete
    \/ CkptInsert
    \/ CkptCommit
    \/ ReadFail
    \/ PublishFail
    \/ CkptFail
    \/ Cancel
    \/ Tick
    \/ \E dev \in Devs, e \in IngestInstants : Ingest(dev, e)

Spec == Init /\ [][Next]_vars

(* --------------------- publish_window, called directly ----------------- *)
\* window starts a caller of publish_window passes
PWStarts == {0, 300, 600}

\* publish_window(client, s, s + 300, conn_ckpt) running to its return
PublishWindow(s) ==
    /\ pc = "down"
    /\ s + WINDOW <= floor_to_five_minutes_utc(clock)
    /\ QueryCols \subseteq metricsCols
    /\ LET e      == s + WINDOW
           r      == fetch_utc_window_aggregate(metrics, s, e)
           before == get_local_checkpoint(ckptRows)
       IN  IF r = {}
           THEN /\ ckptRows' = ckptRows
                /\ handed' = handed
                /\ seen' = seen
                /\ pw' = [start |-> s, n |-> 0, before |-> before, after |-> before]
           ELSE /\ ckptRows' = update_local_checkpoint(ckptRows, e)
                /\ handed' = handed \cup { <<s, x.dev>> : x \in r }
                /\ seen' = seen \cup { <<s, x.dev>> : x \in r }
                /\ pw' = [start |-> s, n |-> Cardinality(r), before |-> before,
                          after |-> e]
    /\ txRows' = ckptRows'
    /\ UNCHANGED <<clock, S3_PARTITION_TZ, metricsCols, metrics>>
    /\ UNCHANGED <<procVars, attempt, runWindows, boot, origin, failed>>
    /\ UNCHANGED <<ended, inWindow, sentCounts, counted, fnVars>>

\* publish_window raising: in the read, or in client.publish after the records
\* of the devices in sent went out; the checkpoint is not reached
PublishWindowFail(s, sent) ==
    /\ pc = "down"
    /\ s + WINDOW <= floor_to_five_minutes_utc(clock)
    /\ LET r == fetch_utc_window_aggregate(metrics, s, s + WINDOW)
       IN  /\ sent \subseteq { x.dev : x \in r }
           /\ sent # {} => (QueryCols \subseteq metricsCols /\ sent # { x.dev : x \in r })
           /\ handed' = handed \cup { <<s, d>> : d \in sent }
    /\ UNCHANGED <<storeVars, procVars>>
    /\ UNCHANGED <<attempt, seen, runWindows, boot, origin, failed, pw>>
    /\ UNCHANGED <<ended, inWindow, sentCounts, counted, fnVars>>

NextPW ==
    \/ \E s \in PWStarts : PublishWindow(s)
    \/ \E s \in PWStarts, sent \in SUBSET Devs : PublishWindowFail(s, sent)
    \/ Tick
    \/ \E dev \in Devs, e \in IngestInstants : Ingest(dev, e)

SpecPW == Init /\ [][NextPW]_vars

(* ------------------ single-shot mode under fair scheduling --------------- *)
\* a step of the publisher process started with --mode once: the start-up,
\* a step of the loop, or an exception leaving it
OnceStep ==
    \/ \E listing \in S3Listings, listFails \in BOOLEAN :
           Boot(FALSE, listing, listFails)
    \/ LoopIdle
    \/ LoopDue
    \/ ReadWindow
    \/ PublishOne
    \/ CkptDelete
    \/ CkptInsert
    \/ CkptCommit
    \/ ReadFail
    \/ PublishFail
    \/ CkptFail

NextOnce ==
    \/ OnceStep
    \/ Tick
    \/ \E dev \in Devs, e \in IngestInstants : Ingest(dev, e)

\* the interpreter runs the single-threaded process whenever it has a next
\* statement: weak fairness on its steps; the clock and the ingest are free
SpecOnce == Init /\ [][NextOnce]_vars /\ WF_vars(OnceStep)

(* ---------------------- partition discovery, by itself ------------------- *)
\* the longest listing studied
MaxKeys == 2

K25_0005  == S3Key(TRUE,  <<2025, 11, 8, 0, 5>>)
K25_0010  == S3Key(TRUE,  <<2025, 11, 8, 0, 10>>)
K25_2355  == S3Key(TRUE,  <<2025, 12, 31, 23, 55>>)
K25_more  == S3Key(TRUE,  <<2025, 11, 8, 0, 0, 30>>)
K25_feb30 == S3Key(TRUE,  <<2026, 2, 30, 0, 0>>)
K25_nan   == S3Key(TRUE,  <<2026, 1, 1, NotInt, 0>>)
K25_text  == S3Key(FALSE, <<2026, 1, 1, 0, 0>>)
K25_part  == S3Key(TRUE,  <<2026, 1, 1, 0>>)

\* the keys of the listings studied
StudyKeys ==
    { K25_0005, K25_0010, K25_2355, K25_more, K25_feb30, K25_nan, K25_text,
      K25_part, K_0000 }

RECURSIVE SeqsUpTo(_, _)
\* the sequences over S of length at most n
SeqsUpTo(S, n) ==
    IF n = 0 THEN { << >> }
    ELSE LET shorter == SeqsUpTo(S, n - 1)
         IN  shorter \cup { Append(q, x) : q \in shorter, x \in S }

InitS3 ==
    /\ InitProgram
    /\ arg \in SeqsUpTo(StudyKeys, MaxKeys)
    /\ res = Unused

\* get_latest_s3_window_utc called on the listing
Discover(listFails) ==
    /\ res = Unused
    /\ res' = [fails |-> listFails, latest |-> get_latest_s3_window_utc(arg, listFails)]
    /\ UNCHANGED <<storeVars, procVars, histVars, arg>>

NextS3 == \E listFails \in BOOLEAN : Discover(listFails)

SpecS3 == InitS3 /\ [][NextS3]_vars

(* ---------------------------- calc_std, by itself ------------------------ *)
\* the largest row count tried
MaxN == 5

\* the largest sum of squared deviations (in hundredths) the fixed point holds
MaxNum == 2000

\* averages tried (tenths): none, -2.5, 0, 10.0, 10.5
StdAvgs == {None, 0 - 25, 0, 100, 105}

\* sums of squares tried (hundredths)
StdSumsqs == {None, 0, 1250, 49999, 50000, 51000, 55200}

\* the calls of calc_std studied
StdArgs ==
    { a \in [avg : StdAvgs, sumsq : StdSumsqs, n : {None} \cup 0..MaxN] :
        (a.avg # None /\ a.sumsq # None /\ a.n # None)
            => a.sumsq - a.n * a.avg * a.avg <= MaxNum }

InitStd ==
    /\ InitProgram
    /\ arg \in StdArgs
    /\ res = Unused

CallStd ==
    /\ res = Unused
    /\ res' = [std |-> calc_std(arg.avg, arg.sumsq, arg.n)]
    /\ UNCHANGED <<storeVars, procVars, histVars, arg>>

NextStd == CallStd

SpecStd == InitStd /\ [][NextStd]_vars

(* ----------------------- aggregate of one device group ------------------- *)
\* the most rows in a group
MaxGroup == 3

\* the t column of a row (tenths): NULL, 9.0 or 12.0
TValues == {None, 90, 120}

RECURSIVE SumOver(_, _)
\* the sum of f[i] over the indices I
SumOver(f, I) ==
    IF I = {} THEN 0
    ELSE LET i == CHOOSE j \in I : TRUE
         IN  f[i] + SumOver(f, I \ {i})

\* COUNT(*), AVG(t) and SUM(t*t) over the rows of one group, then temp_std as
\* the publish loop derives it; the SQL aggregates skip NULL and are NULL
\* when every value is NULL
GroupAggregate(ts) ==
    LET some     == { i \in 1..Len(ts) : ts[i] # None }
        n        == Len(ts)
        temp_avg == IF some = {} THEN None
                    ELSE SumOver(ts, some) \div Cardinality(some)
        t_sumsq  == IF some = {} THEN None
                    ELSE SumOver([i \in 1..Len(ts) |-> ts[i] * ts[i]], some)
    IN  [n |-> n, temp_avg |-> temp_avg, t_sumsq |-> t_sumsq,
         temp_std |-> calc_std(temp_avg, t_sumsq, n)]

InitAgg ==
    /\ InitProgram
    /\ arg \in SeqsUpTo(TValues, MaxGroup) \ { << >> }
    /\ res = Unused

\* the grouped read and the loop's calc_std for a group whose rows carry arg
Aggregate ==
    /\ res = Unused
    /\ res' = GroupAggregate(arg)
    /\ UNCHANGED <<storeVars, procVars, histVars, arg>>

NextAgg == Aggregate

SpecAgg == InitAgg /\ [][NextAgg]_vars

(* ------------------------------ the ingest ------------------------------ *)
\* Values of a payload are whole numbers, None (absent or empty), TextVal (a
\* text that is not a number) or ArrayVal (a JSON array or object).
TextVal == 0 - 666666
ArrayVal == 0 - 555555

MAX_PM_UGM3 == 1000
MAX_LUX == 65535

\* isinstance(x, (int, float))
is_num(x) == x \notin {None, TextVal, ArrayVal}

\* the metric fields of a row
MetricKeys == {"t", "h", "lx", "g", "pm1_0", "pm2_5", "pm10"}

\* the messages studied: a JSON object, ten fields between "|", or neither;
\* g, pm1_0 and pm10 are absent
Msgs ==
    [fmt : {"json", "pipe", "junk"}, ts : IngestInstants,
     t : {None, 20, 0 - 5, TextVal, ArrayVal}, h : {None, 50, 101},
     lx : {None, 70000}, pm2_5 : {None, 0, 5, 2000}]

\* the filter options read from the environment
Options == [KEEP_REJECTS : BOOLEAN, STRICT_PM_ALL_ZERO : BOOLEAN, DROP_NEGATIVE : BOOLEAN]

\* parse_payload raises: the text is neither a JSON object nor ten fields
\* between "|", or float() refuses one of the ten fields
ParseRaises(m) ==
    \/ m.fmt = "junk"
    \/ m.fmt = "pipe" /\ \E v \in {m.t, m.h, m.lx, m.pm2_5} : v \in {TextVal, ArrayVal}

\* the dict parse_payload returns
parse_payload(m) ==
    [dev |-> "d1", ts |-> CivilAt(m.ts, KstOffset), t |-> m.t, h |-> m.h,
     lx |-> m.lx, g |-> None, pm1_0 |-> None, pm2_5 |-> m.pm2_5, pm10 |-> None]

\* the reasons validate_row collects; the row is accepted when there is none
validate_row(d, opts) ==
    LET zero_or_none(x) == x = None \/ (is_num(x) /\ x = 0)
    IN  { "neg" : k \in { j \in MetricKeys :
                            opts.DROP_NEGATIVE /\ is_num(d[j]) /\ d[j] < 0 } }
        \cup { "humidity_out_of_range" : x \in { y \in {d.h} :
                            is_num(y) /\ ~(0 <= y /\ y <= 100) } }
        \cup { "lux_out_of_range" : x \in { y \in {d.lx} : is_num(y) /\ y > MAX_LUX } }
        \cup { "too_high" : x \in { y \in {d.pm1_0, d.pm2_5, d.pm10} :
                            is_num(y) /\ y > MAX_PM_UGM3 } }
        \cup { "pm_all_zero" : x \in { y \in {TRUE} :
                            /\ opts.STRICT_PM_ALL_ZERO
                            /\ zero_or_none(d.pm1_0)
                            /\ zero_or_none(d.pm2_5)
                            /\ zero_or_none(d.pm10) } }

\* sqlite3 refuses to bind a parameter that is a list or a dict
BindRaises(d) == \E k \in MetricKeys : d[k] = ArrayVal

\* what one call of on_message leaves committed
NoInsert == [metrics |-> {}, rejects |-> {}]

\* on_message with the "return" of the rejected branch left out
on_message_no_return(m, opts, storeFails) ==
    IF ParseRaises(m) THEN NoInsert
    ELSE LET data == parse_payload(m)
             why  == validate_row(data, opts)
             rej  == IF why # {} /\ opts.KEEP_REJECTS /\ ~storeFails
                     THEN {[dev |-> data.dev, ts |-> data.ts, reason |-> why]}
                     ELSE {}
         IN  IF storeFails \/ BindRaises(data) THEN [metrics |-> {}, rejects |-> rej]
             ELSE [metrics |-> {[dev |-> data.dev, ts |-> data.ts, k |-> 1]},
                   rejects |-> rej]

\* on_message: parse, validate, then one INSERT and commit; storeFails =
\* execute or commit raises (the database is locked, the disk is full); every
\* exception is caught and printed
on_message(m, opts, storeFails) ==
    IF ParseRaises(m) THEN NoInsert
    ELSE LET data == parse_payload(m)
             why  == validate_row(data, opts)
         IN  IF why # {}
             THEN IF opts.KEEP_REJECTS /\ ~storeFails
                  THEN [metrics |-> {},
                        rejects |-> {[dev |-> data.dev, ts |-> data.ts, reason |-> why]}]
                  ELSE NoInsert
             ELSE IF storeFails \/ BindRaises(data) THEN NoInsert
             ELSE [metrics |-> {[dev |-> data.dev, ts |-> data.ts, k |-> 1]},
                   rejects |-> {}]

InitMsg ==
    /\ InitProgram
    /\ arg \in [msg : Msgs, opts : Options]
    /\ res = Unused

\* one message arrives at an empty store
Receive(storeFails) ==
    /\ res = Unused
    /\ LET out == on_message(arg.msg, arg.opts, storeFails)
       IN  /\ metrics' = metrics \cup out.metrics
           /\ res' = [fails |-> storeFails, rejects |-> out.rejects]
    /\ UNCHANGED <<clock, S3_PARTITION_TZ, metricsCols, ckptRows, txRows>>
    /\ UNCHANGED <<procVars, histVars, arg>>

NextMsg == \E storeFails \in BOOLEAN : Receive(storeFails)

SpecMsg == InitMsg /\ [][NextMsg]_vars

(* ------------------------ window selection, by itself -------------------- *)
\* windows of the tiling looked at on either side of the base window
MaxTiles == 2

\* starts of base windows: 1970-01-01T00:05:00Z, 2025-11-08T00:05:00Z, the
\* window that begins the KST day 2025-11-09 (2025-11-08T15:00:00Z) and the
\* window that begins the KST year 2026 (2025-12-31T15:00:00Z)
WinBases == {300, 1762560300, 1762614000, 1767193200}

\* where in, before and after the base window the row is stamped
WinOffsets == {0 - 301, 0 - 300, 0 - 1, 0, 1, 150, 299, 300, 301, 599, 600}

\* the tiling around base window b
Tiling(b) == { b + WINDOW * j : j \in (0 - MaxTiles)..MaxTiles }

\* the row the ingest stores for a reading stamped with epoch e
StoredRow(e) == [dev |-> "d1", ts |-> CivilAt(e, KstOffset), k |-> 1]

InitWin ==
    /\ InitProgram
    /\ arg \in [base : WinBases, off : WinOffsets]
    /\ res = Unused

\* fetch_utc_window_aggregate called for every window of the tiling on a
\* store that holds the one row: the windows that return it
SelectRow ==
    /\ res = Unused
    /\ res' = [windows |->
                 { s \in Tiling(arg.base) :
                     fetch_utc_window_aggregate({StoredRow(arg.base + arg.off)},
                                                s, s + WINDOW) # {} }]
    /\ UNCHANGED <<storeVars, procVars, histVars, arg>>

NextWin == SelectRow

SpecWin == InitWin /\ [][NextWin]_vars

(* ------------------------------- claims -------------------------------- *)
StoredCkpt == get_local_checkpoint(ckptRows)

\* a step that is the start-up of a run
BootStep == pc \in {"down", "stopped"} /\ pc' = "loop"

\* C1: the stored checkpoint never decreases, over any number of runs and
\* restarts, and a start-up that finds a checkpoint stored resumes from it,
\* whatever the S3 listing would have said.
C1_CheckpointMonotone ==
    [][ /\ get_local_checkpoint(ckptRows') >= get_local_checkpoint(ckptRows)
        /\ (BootStep /\ StoredCkpt # 0) => (last_utc_end' = StoredCkpt) ]_vars

\* C1 witness: a run resumed from a stored checkpoint and committed beyond it
C1_Witness ==
    /\ boot.src = "ckpt"
    /\ StoredCkpt > boot.anchor

\* C2: while some device row of the current window has not been handed to
\* client.publish in this attempt the stored checkpoint is below the window's
\* end, and the checkpoint write starts only when every row has been handed.
C2_CommitAfterHandoff ==
    /\ (pc \in WindowPcs /\ ~({ r.dev : r \in rows } \subseteq attempt))
           => StoredCkpt < next_end
    /\ pc \in CkptPcs => { r.dev : r \in rows } \subseteq attempt

\* C2 witness: the checkpoint write of a window with two device rows
C2_Witness ==
    /\ pc = "ckpt_commit"
    /\ Cardinality(rows) = 2
    /\ attempt = Devs

C4_RetrySameWindow ==
    (failed # NoWin /\ pc \in WindowPcs) => start_utc = failed

\* C5 (the claim as stated): a start-up that finds no checkpoint and gets
\* nothing from partition discovery anchors one window before now (before
\* the floored now at the earliest), not at the epoch.
C5_AnchorNearNow ==
    [][ (BootStep /\ boot'.src = "none" /\ clock > WINDOW)
            => last_utc_end' \in { clock - WINDOW,
                                   floor_to_five_minutes_utc(clock) - WINDOW } ]_vars

\* C6 (the claim as stated, for publish_window): a call for a due window
\* whose read returns no rows leaves the checkpoint at the window's end.
C6_EmptyWindowAdvances ==
    (pw.start # NoWin /\ pw.n = 0) => pw.after = pw.start + WINDOW

\* C7: a window is being read, published or committed only if its end was
\* at most the five-minute floor of now when it was checked, and from a
\* loop position whose next window ends later than the floored clock no step
\* reads, publishes or writes: anchor and checkpoint stay as they are.
C7_OnlyElapsedWindows ==
    [][ /\ pc' \in WindowPcs =>
              (next_end' <= now' - (now' % WINDOW) /\ now' <= clock')
        /\ (pc = "loop" /\ last_utc_end + WINDOW > clock - (clock % WINDOW)) =>
              /\ pc' \notin WindowPcs
              /\ ckptRows' = ckptRows
              /\ txRows' = txRows
              /\ handed' = handed
              /\ seen' = seen
              /\ pc' = "loop" => last_utc_end' = last_utc_end ]_vars

\* C7 witness: a once-mode run that committed a window and then broke out of
\* the loop on the idle check
C7_Witness ==
    /\ pc = "stopped"
    /\ StoredCkpt >= WINDOW
    /\ StoredCkpt + WINDOW > clock

\* C8 (the claim as stated): every window taken up has end = start + 300
\* and a start that is a multiple of 300.
C8_WindowsAligned ==
    pc \in WindowPcs => (next_end = start_utc + WINDOW /\ start_utc % WINDOW = 0)

\* C9: the windows one run takes up start at the run's resume anchor and
\* each later one starts where the one before it ended.
C9_ContiguousChain ==
    pc \in RunningPcs =>
        /\ Len(runWindows) >= 1 => runWindows[1] = boot.anchor
        /\ \A i \in 2..Len(runWindows) : runWindows[i] = runWindows[i - 1] + WINDOW
        /\ pc \in WindowPcs =>
              (Len(runWindows) >= 1 /\ runWindows[Len(runWindows)] = start_utc)

\* C9 witness: a run that has taken up three windows in a row
C9_Witness ==
    /\ pc \in WindowPcs
    /\ Len(runWindows) >= 3

\* C10: a checkpoint write that commits leaves exactly one row, holding the
\* value written; a write that fails after its DELETE leaves the committed
\* table as it was, so the previous value is what the next start-up reads.
C10_SingleRow ==
    [][ /\ ckptRows' # ckptRows =>
              (pc = "ckpt_commit" /\ pc' = "loop" /\ ckptRows' = <<next_end>>)
        /\ (pc \in {"ckpt_insert", "ckpt_commit"} /\ pc' = "down") =>
              (ckptRows' = ckptRows /\ txRows' = ckptRows) ]_vars

\* C10 witness: a second write between its DELETE and its INSERT: the
\* transaction sees no row, the committed table still holds the previous one
C10_Witness ==
    /\ pc = "ckpt_insert"
    /\ txRows = << >>
    /\ Len(ckptRows) = 1


\* C11: in continuous mode no store failure and no transport failure ends the
\* publish loop: a loop started in continuous mode leaves its running
\* positions only through a cancellation from outside, never through a
\* failed read, a failed hand-off or a failed checkpoint write.
C11_OnlyCancelEnds ==
    [][ (pc \in RunningPcs /\ run_forever /\ pc' \notin RunningPcs)
            => ended' = "cancel" ]_vars

\* nothing is due at clock reading c for a loop anchored at l
NothingDue(l, c) == l + WINDOW > floor_to_five_minutes_utc(c)

\* the windows from the resume anchor up to the anchor were taken up one
\* after the other and the last of them is what the stored checkpoint says
AllCommitted ==
    /\ last_utc_end = boot.anchor + WINDOW * Len(runWindows)
    /\ \A i \in 1..Len(runWindows) : runWindows[i] = boot.anchor + WINDOW * (i - 1)
    /\ Len(runWindows) >= 1 => StoredCkpt = last_utc_end

\* the windows that have elapsed past anchor l at clock reading c
WindowsDue(l, c) ==
    LET fl == floor_to_five_minutes_utc(c)
    IN  IF l + WINDOW <= fl THEN (fl - l) \div WINDOW ELSE 0

\* the statements left in the pass of the loop under way at position p with
\* the records of left still to hand off
StepsLeft(p, left) ==
    CASE p = "loop"        -> Cardinality(Devs) + 5
      [] p = "read"        -> Cardinality(Devs) + 4
      [] p = "publish"     -> Cardinality(left) + 3
      [] p = "ckpt_delete" -> 3
      [] p = "ckpt_insert" -> 2
      [] p = "ckpt_commit" -> 1
      [] OTHER             -> 0

\* what a single-shot run still has to do while the clock stands still
Rank(p, l, c, left) ==
    IF p \in RunningPcs
    THEN (Cardinality(Devs) + 6) * WindowsDue(l, c) + StepsLeft(p, left)
    ELSE 0

\* the statement the loop is at can be executed: the two branches of the
\* due test are complementary, a read, a hand-off and a checkpoint write
\* either return or raise, and a pass is in the hand-off loop only while a
\* record is left
CanStep ==
    \/ pc = "loop"
    \/ pc = "read"
    \/ pc = "publish" /\ todo # {}
    \/ pc \in CkptPcs

\* C12: in single-shot mode the loop stops provided nothing fails and the
\* windows are processed faster than they elapse: a running loop always has
\* a next step, every step it takes while the clock stands still brings it
\* nearer to the end of the run, and a run that no failure ends can only end
\* by stopping; at the moment it stops it has caught up: the anchor plus one
\* window is later than the floored current time and every window between
\* the resume anchor and the anchor has been committed.
C12_OnceStopsCaughtUp ==
    /\ [](pc \in RunningPcs => CanStep)
    /\ [][ (pc \in RunningPcs /\ clock' = clock /\ metrics' = metrics)
             => Rank(pc', last_utc_end', clock', todo')
                  < Rank(pc, last_utc_end, clock, todo) ]_vars
    /\ [][ (pc \in RunningPcs /\ pc' \notin RunningPcs /\ ended' # "failure")
             => /\ pc' = "stopped"
                /\ NothingDue(last_utc_end', clock')
                /\ AllCommitted' ]_vars

\* a single-shot run that committed two windows and then stopped
C12_Witness ==
    /\ pc = "stopped"
    /\ Len(runWindows) >= 2
    /\ StoredCkpt = boot.anchor + 2 * WINDOW

\* the civil fields a key that counts names, as a timestamp
KeyCivil(k) == <<k.parts[1], k.parts[2], k.parts[3], k.parts[4], k.parts[5], 0>>

\* a <= b for timestamps
TsLeq(a, b) == ~TsLess(b, a)

\* C13: partition discovery returns the maximum, over the listed keys that
\* have a recognised extension and five parseable time parts, of the
\* partition start plus five minutes, read in the configured partition zone:
\* the result less five minutes, shown in that zone, is the partition named
\* by a key that counts, and no key that counts names a later one; 0 is
\* returned when no key counts or none ends after the epoch. Keys that do
\* not count change nothing: the listing without them gives the same result.
\* The key of partition 2025/11/08/00/05 in zone UTC gives 2025-11-08T00:10:00Z.
C13_LatestPartitionEnd ==
    (res # Unused /\ ~res.fails) =>
        LET good  == { i \in 1..Len(arg) : KeyCounts(arg[i]) }
            epoch == CivilAt(0 - 5 * 60, PartitionOffset)
            found == CivilAt(res.latest - 5 * 60, PartitionOffset)
        IN  /\ res.latest >= 0
            /\ res.latest = 0 <=> \A i \in good : TsLeq(KeyCivil(arg[i]), epoch)
            /\ res.latest > 0 =>
                  /\ \E i \in good : KeyCivil(arg[i]) = found
                  /\ \A i \in good : TsLeq(KeyCivil(arg[i]), found)
            /\ res.latest = get_latest_s3_window_utc(SelectSeq(arg, KeyCounts), FALSE)
            /\ (arg = <<K25_0005>> /\ S3_PARTITION_TZ = "UTC") => res.latest = 1762560600
            /\ (arg = <<K25_0005>> /\ S3_PARTITION_TZ = "KST") => res.latest = 1762528200

\* a listing with a key that is skipped ahead of a key that counts
C13_Witness ==
    /\ res # Unused
    /\ ~res.fails
    /\ arg = <<K25_nan, K25_2355>>
    /\ res.latest > 0

\* C14: a stored row with civil (+9h) timestamp T is selected by the read of
\* UTC window [s, e) exactly when s <= T - 9h < e, so every stored row falls
\* in exactly one window of the tiling, and a row stamped exactly at a
\* window's end belongs to the next window only; the row stamped
\* "2025-11-08 09:05:00" is returned by window 00:05:00Z-00:10:00Z.
C14_RowInOneWindow ==
    res # Unused =>
        LET row == StoredRow(arg.base + arg.off)
            T   == InstantOf(row.ts, 0)
        IN  /\ res.windows = { s \in Tiling(arg.base) :
                                 s <= T - KstOffset /\ T - KstOffset < s + WINDOW }
            /\ Cardinality(res.windows) = 1
            /\ arg.off = WINDOW => res.windows = {arg.base + WINDOW}
            /\ row.ts = <<2025, 11, 8, 9, 5, 0>> => res.windows = {1762560300}

\* a row stamped exactly where one window ends and the next begins, at the
\* change of the KST day
C14_Witness ==
    /\ res # Unused
    /\ arg.base = 1762614000
    /\ arg.off = 0
    /\ StoredRow(arg.base + arg.off).ts = <<2025, 11, 9, 0, 0, 0>>
    /\ res.windows = {1762614000}

\* C15: in a failure-free processing of window W, exactly one record is
\* handed to the transport for each device that had at least one stored row
\* in W when W was read, none for a device with no row in W, and every
\* record handed off carries a count of at least 1 (the number of the
\* device's rows in W).
C15_OneRecordPerDevice ==
    pc \in CkptPcs =>
        \A d \in Devs :
            LET mine == { r \in inWindow : r.dev = d }
            IN  /\ mine = {} => sentCounts[d] = << >>
                /\ mine # {} =>
                      /\ Len(sentCounts[d]) = 1
                      /\ sentCounts[d][1] >= 1
                      /\ sentCounts[d][1] = Cardinality(mine)

\* a window in which one device has two rows and the other none, handed off
C15_Witness ==
    /\ pc \in CkptPcs
    /\ \E d \in Devs : sentCounts[d] = <<2>>
    /\ \E d \in Devs : sentCounts[d] = << >>

\* C16: calc_std(avg, sumsq, n) is undefined exactly when n < 2 or an input
\* is missing; otherwise it is the square root, rounded to four decimals, of
\* max(0, (sumsq - n * avg^2) / (n - 1)): never negative and never an error.
\* n = 5, avg = 10.0, sumsq = 510.0 gives 1.5811; n = 1 gives undefined.
C16_StdDefined ==
    res # Unused =>
        LET missing == arg.avg = None \/ arg.sumsq = None \/ arg.n = None
            num     == arg.sumsq - arg.n * arg.avg * arg.avg
            q       == arg.n - 1
            whole   == (IF num < 0 THEN 0 ELSE num * 1000000) \div q
            rest    == (IF num < 0 THEN 0 ELSE num * 1000000) % q
            below   == res.std * res.std - res.std
            above   == res.std * res.std + res.std
        IN  /\ res.std # Raises
            /\ res.std = None <=> (missing \/ arg.n < 2)
            /\ res.std # None =>
                  /\ res.std >= 0
                  \* |std - root| <= 1/2, that is std = 0 or
                  \* std^2 - std + 1/4 <= whole + rest/q, and
                  \* whole + rest/q <= std^2 + std + 1/4
                  /\ res.std = 0 \/ below < whole \/ (below = whole /\ 4 * rest >= q)
                  /\ whole < above \/ (whole = above /\ 4 * rest <= q)
            /\ (arg.n = 5 /\ arg.avg = 100 /\ arg.sumsq = 51000) => res.std = 15811
            /\ arg.n = 1 => res.std = None

\* rounding noise: the sum of squares falls just short of n * avg^2
C16_Witness ==
    /\ res # Unused
    /\ arg.n = 5
    /\ arg.avg = 100
    /\ arg.sumsq = 49999
    /\ res.std = 0

\* C17: the partition-key fields the publish loop emits for window W, read
\* back by partition discovery under its configured partition zone, give
\* exactly W.end, so that a resume from the fallback after W starts the next
\* window at W.end.
C17_PartitionRoundTrip ==
    pc = "publish" =>
        get_latest_s3_window_utc(<<S3Key(TRUE, PartitionFields(start_utc))>>, FALSE)
            = next_end

\* C18: with the ingest and the publish loop interleaved, every row the
\* ingest commits is counted in the published aggregate of exactly one
\* window: once the windows from the resume anchor up to the stored
\* checkpoint are committed, every stored row stamped in that span, rows
\* committed after their window was read or committed included, has been
\* counted in an aggregate handed to the transport, and no row is counted
\* in two different windows.
C18_EveryRowCountedOnce ==
    \A m \in metrics :
        LET wins == { c[2] : c \in { x \in counted : x[1] = m } }
        IN  /\ Cardinality(wins) <= 1
            /\ (origin # NoWin /\ origin <= RowInstant(m) /\ RowInstant(m) < StoredCkpt)
                  => wins # {}

\* C19: for every device group and metric, the count used to derive the
\* standard deviation is the number of rows of the group that carry a
\* non-null value of the metric; a group in which fewer than two rows carry
\* the metric gets an undefined standard deviation even when it has two or
\* more rows.
C19_StdCountsNonNull ==
    res # Unused =>
        LET carrying == Cardinality({ i \in 1..Len(arg) : arg[i] # None })
        IN  /\ res.temp_std = calc_std(res.temp_avg, res.t_sumsq, carrying)
            /\ carrying < 2 => res.temp_std = None

\* C20: every column the grouped query names (dev, ts, t, h, lx, g, pm) is a
\* column of the metrics table the ingest creates, so that the read of a due
\* window on a store created by the ingest alone succeeds: whenever the loop
\* is at the read on such a store, the table has the columns of the query.
C20_QueryColumnsExist ==
    (pc = "read" /\ metricsCols = IngestCols) => QueryCols \subseteq metricsCols

\* the message parsed, and validate_row accepted the parsed row
MsgParsed == ~ParseRaises(arg.msg)
MsgAccepted == validate_row(parse_payload(arg.msg), arg.opts) = {}

\* what the aggregate reader returns for the window of the message
MsgVisible ==
    LET start == arg.msg.ts - (arg.msg.ts % WINDOW)
    IN  fetch_utc_window_aggregate(metrics, start, start + WINDOW)

====
